---- MODULE Spec2Model ----
(***************************************************************************)
(* Model of ndServiceRegistry/watcher.py: class Watcher, a local cache of  *)
(* one Zookeeper node (data, stat, children) kept current by a DataWatch   *)
(* and a ChildrenWatch, with a callback registry and a start/stop flag.    *)
(*                                                                         *)
(* Threads: the application thread (constructor, get, stop, start,         *)
(* add_callback), and the client's notification threads that run the two   *)
(* handlers _update_root_data and _update_child_list.  Every read or write *)
(* of a field of the Watcher is a step of its own; the Zookeeper node is   *)
(* part of the state and changes between any two steps.                    *)
(*                                                                         *)
(* A definition introduced as a line of the source "as", "with" or "left   *)
(* out" is a faulty variant of the definition that follows it; the         *)
(* properties at the end are expected to tell the two apart.               *)
(***************************************************************************)
EXTENDS Integers, Sequences, FiniteSets, TLC

\* ---------------------------------------------------------------- bounds
\* Number of inputs: changes made to the Zookeeper node and its children, and
\* calls the application makes on the Watcher after construction.
MaxEvents == 2

\* ------------------------------------------------------------ value sets
\* Python's None, for data values.
None == "None"
\* Python's None, for a stat (a ZnodeStat is modelled by its mzxid >= 1).
NoStat == 0
\* The path given to the constructor.
Path == "/services/foo"
\* Raw payloads stored in Zookeeper.
RawValues == {"a", "b"}
\* Names of the children of the watched node, in the order the client lists them.
ChildSeq == <<"n1", "n2">>
ChildNames == {ChildSeq[k] : k \in 1..Len(ChildSeq)}
\* Callback functions of the application.
Callbacks == {"f", "g"}
\* Notification threads: two per subscription, so that two firings of one
\* handler can be in flight together where the client allows it.
DataSlotSeq == <<"d1", "d2">>
ChildSlotSeq == <<"c1", "c2">>
DataSlots == {DataSlotSeq[k] : k \in 1..Len(DataSlotSeq)}
ChildSlots == {ChildSlotSeq[k] : k \in 1..Len(ChildSlotSeq)}
Slots == DataSlots \cup ChildSlots

VARIABLES
    \* the Zookeeper server
    events,        \* number of inputs so far
    mzxid,         \* the last modification id given to the node
    zkStat,        \* stat (mzxid) of the node, NoStat when it does not exist
    zkData,        \* raw data of the node, None when it does not exist
    zkChildren,    \* child name -> raw data of that child
    dataArmed,     \* the DataWatch is registered
    childArmed,    \* the ChildrenWatch is registered
    dataPending,   \* a data notification waits for delivery
    childPending,  \* a child notification waits for delivery
    \* the Watcher object
    callback,      \* the callback argument of the constructor, or None
    _path, _watch_children, _children, _data, _stat, _callbacks, _state,
    heap,          \* dict objects: id -> (child name -> decoded data)
    \* the handler runs
    h,             \* slot -> frame of the handler running there
    dataRuns,      \* number of runs of _update_root_data started so far
    childRuns,     \* number of runs of _update_child_list started so far
    statRun,       \* run that last wrote _stat (0: the constructor)
    dataRun,       \* run that last wrote _data (0: the constructor)
    failedKinds,   \* handlers ("data", "child") of which a run has ended on a failed fetch
    \* the application thread
    pcA,           \* where the application thread is
    ret,           \* the dict get() is building
    snap,          \* the last dict get() returned to the application
    acb,           \* acb: the callback add_callback is adding
    immediate,     \* callback -> number of invocations made by add_callback
    lastcall,      \* the last invocation made by add_callback
    warnings,      \* number of times line 120 logged 'already exists'
    abase,         \* runs when add_callback began with no handler running, else -1
    sawExists      \* what exists() answered in _begin

nodevars == <<mzxid, zkStat, zkData, zkChildren>>
zkvars == <<events, nodevars>>
watchvars == <<dataArmed, childArmed, dataPending, childPending>>
objvars == <<callback, _path, _watch_children, _children, _data, _stat, _callbacks, _state, heap>>
runvars == <<h, dataRuns, childRuns, statRun, dataRun, failedKinds>>
appvars == <<pcA, ret, snap, acb, immediate, lastcall, warnings, abase, sawExists>>
vars == <<zkvars, watchvars, objvars, runvars, appvars>>

\* ------------------------------------------------------------- helpers
Range(s) == {s[k] : k \in 1..Len(s)}

\* No reference to a dict object.
NoRef == -1

\* An empty Python dict.
EmptyDict == [c \in {} |-> None]

\* d[k] = v on a dict.
DictPut(d, k, v) == [c \in (DOMAIN d) \cup {k} |-> IF c = k THEN v ELSE d[c]]

\* funcs.decode: the raw payload turned into the application's value; None
\* stays None.
decode(data) ==
    CASE data = None -> None
      [] data = "a" -> "A"
      [] data = "b" -> "B"

\* The list of child names a ChildrenWatch hands to its function.
ChildList(S) == SelectSeq(ChildSeq, LAMBDA c : c \in S)

\* The frame of a slot where no handler runs.
Idle == [pc |-> "idle", run |-> 0, init |-> FALSE, stat |-> NoStat, data |-> None,
         names |-> <<>>, i |-> 1, children |-> NoRef, fetched |-> EmptyDict,
         invoked |-> <<>>, registered |-> 0, quiet |-> FALSE]

\* The dict get() has not started to fill, and the absence of a returned dict.
NoRet == [stat |-> NoStat, path |-> "", data |-> None, children |-> NoRef,
          statRun |-> 0, dataRun |-> 0, kids |-> EmptyDict]

\* No invocation made by add_callback yet.
NoCall == [cb |-> None, active |-> FALSE, clean |-> FALSE, current |-> FALSE]

\* The dict objects still referenced once the frames are fr, self._children is
\* c and the application holds sn; Python frees the others.
Collect(hp, fr, c, sn) ==
    LET live == {c, sn.children} \cup {fr[t].children : t \in ChildSlots}
    IN  [id \in (DOMAIN hp) \cap live |-> hp[id]]

\* Every handler slot is idle.
AllIdle == \A s \in Slots : h[s].pc = "idle"

\* The first idle slot of a subscription takes the next notification.
FirstIdle(seq) ==
    LET idle == {k \in 1..Len(seq) : h[seq[k]].pc = "idle"}
    IN  IF idle = {} THEN None
        ELSE seq[CHOOSE k \in idle : \A j \in idle : k <= j]

\* ----------------------------------------------------------------- Init
\* The state at line 91, after __init__ has set the fields and before _begin.
\* The node may or may not exist, with or without a child.
Init ==
    /\ events = 0
    /\ \/ /\ mzxid = 0 /\ zkStat = NoStat /\ zkData = None /\ zkChildren = EmptyDict
       \/ /\ mzxid = 1 /\ zkStat = 1 /\ zkData = "a"
          /\ zkChildren \in {EmptyDict, [c \in {"n1"} |-> "a"]}
    /\ dataArmed = FALSE /\ childArmed = FALSE
    /\ dataPending = FALSE /\ childPending = FALSE
    /\ _path = Path
    /\ _watch_children \in BOOLEAN
    /\ _children = 0
    /\ heap = [id \in {0} |-> EmptyDict]
    /\ _data = None
    /\ _stat = NoStat
    /\ callback \in {None, "f"}
    /\ _callbacks = IF callback = None THEN <<>> ELSE <<callback>>
    /\ _state = TRUE
    /\ h = [s \in Slots |-> Idle]
    /\ dataRuns = 0 /\ childRuns = 0 /\ statRun = 0 /\ dataRun = 0
    /\ failedKinds = {}
    /\ pcA = "begin" /\ ret = NoRet /\ snap = NoRet /\ acb = None
    /\ immediate = [cb \in Callbacks |-> 0]
    /\ lastcall = NoCall /\ warnings = 0 /\ abase = -1
    /\ sawExists = FALSE

\* ------------------------------------------------------ the Zookeeper node
\* Any change of the node's data or existence fires the DataWatch.
NotifyData == dataPending' = (dataPending \/ dataArmed)
\* Any change of the set of children fires the ChildrenWatch.
NotifyChildren == childPending' = (childPending \/ childArmed)

ZkCreate(r) ==
    /\ events < MaxEvents /\ zkStat = NoStat
    /\ events' = events + 1
    /\ mzxid' = mzxid + 1 /\ zkStat' = mzxid + 1 /\ zkData' = r
    /\ NotifyData
    /\ UNCHANGED <<zkChildren, dataArmed, childArmed, childPending, objvars, runvars, appvars>>

ZkSet(r) ==
    /\ events < MaxEvents /\ zkStat # NoStat
    /\ events' = events + 1
    /\ mzxid' = mzxid + 1 /\ zkStat' = mzxid + 1 /\ zkData' = r
    /\ NotifyData
    /\ UNCHANGED <<zkChildren, dataArmed, childArmed, childPending, objvars, runvars, appvars>>

\* Zookeeper deletes a node only when it has no children.
ZkDelete ==
    /\ events < MaxEvents /\ zkStat # NoStat /\ zkChildren = EmptyDict
    /\ events' = events + 1
    /\ zkStat' = NoStat /\ zkData' = None
    /\ NotifyData
    /\ UNCHANGED <<mzxid, zkChildren, dataArmed, childArmed, childPending, objvars, runvars, appvars>>

\* A child is created, or its data is set (which does not change the set of
\* children, and fires nothing).
ZkChildPut(c, r) ==
    /\ events < MaxEvents /\ zkStat # NoStat
    /\ events' = events + 1
    /\ zkChildren' = DictPut(zkChildren, c, r)
    /\ IF c \in DOMAIN zkChildren THEN UNCHANGED childPending ELSE NotifyChildren
    /\ UNCHANGED <<mzxid, zkStat, zkData, dataArmed, childArmed, dataPending, objvars, runvars, appvars>>

ZkChildDelete(c) ==
    /\ events < MaxEvents /\ c \in DOMAIN zkChildren
    /\ events' = events + 1
    /\ zkChildren' = [k \in (DOMAIN zkChildren) \ {c} |-> zkChildren[k]]
    /\ NotifyChildren
    /\ UNCHANGED <<mzxid, zkStat, zkData, dataArmed, childArmed, dataPending, objvars, runvars, appvars>>

\* ------------------------------------------------- _update_root_data
\* The DataWatch calls _update_root_data(data, stat): data is always None
\* (lines 134-138), stat is the node's stat at the time of the call.  Line 139
\* sends the run to the fetch of line 141 or straight to line 146.
StartData(s) ==
    /\ dataArmed /\ dataPending
    /\ s = FirstIdle(DataSlotSeq)
    /\ dataPending' = FALSE
    /\ dataRuns' = dataRuns + 1
    /\ h' = [h EXCEPT ![s] =
                [Idle EXCEPT !.pc = IF zkStat # NoStat THEN "fetch" ELSE "decode",
                             !.run = dataRuns + 1,
                             !.init = (pcA = "begin_data" /\ \A t \in DataSlots : ~h[t].init),
                             !.stat = zkStat,
                             !.data = None,
                             !.quiet = ~_state]]
    /\ UNCHANGED <<zkvars, dataArmed, childArmed, childPending, objvars, childRuns,
                   failedKinds, statRun, dataRun, appvars>>

\* Line 141 in a try block whose handler sets self._stat = None and goes on.
DataFetchSwallow(s) ==
    /\ h[s].pc = "fetch"
    /\ \/ /\ zkStat # NoStat
          /\ h' = [h EXCEPT ![s].data = zkData, ![s].pc = "decode"]
          /\ _stat' = zkStat
          /\ statRun' = h[s].run
       \/ /\ h' = [h EXCEPT ![s].pc = "decode", ![s].stat = NoStat]
          /\ _stat' = NoStat
          /\ statRun' = h[s].run
    /\ UNCHANGED <<zkvars, watchvars, callback, _path, _watch_children, _children, _data,
                   _callbacks, _state, heap, dataRuns, failedKinds, childRuns, dataRun, appvars>>

\* Line 141 with self._stat = None set ahead of the get: a get that raises
\* leaves the stat cleared and the data as it was.
DataFetchHalf(s) ==
    /\ h[s].pc = "fetch"
    /\ \/ /\ zkStat # NoStat
          /\ h' = [h EXCEPT ![s].data = zkData, ![s].pc = "decode"]
          /\ _stat' = zkStat
          /\ statRun' = h[s].run
       \/ /\ h' = [h EXCEPT ![s].pc = "failed"]
          /\ _stat' = NoStat
          /\ statRun' = h[s].run
    /\ UNCHANGED <<zkvars, watchvars, callback, _path, _watch_children, _children, _data,
                   _callbacks, _state, heap, dataRuns, failedKinds, childRuns, dataRun, appvars>>

\* Line 141: data, self._stat = self._zk.retry(self._zk.get, self._path).
\* The get raises NoNodeError when the node is gone, and may raise on a lost
\* connection; then nothing is assigned and the exception leaves the handler.
DataFetch(s) ==
    /\ h[s].pc = "fetch"
    /\ \/ /\ zkStat # NoStat
          /\ h' = [h EXCEPT ![s].data = zkData, ![s].pc = "decode"]
          /\ _stat' = zkStat
          /\ statRun' = h[s].run
       \/ /\ h' = [h EXCEPT ![s].pc = "failed"]
          /\ UNCHANGED <<_stat, statRun>>
    /\ UNCHANGED <<zkvars, watchvars, callback, _path, _watch_children, _children, _data,
                   _callbacks, _state, heap, dataRuns, failedKinds, childRuns, dataRun, appvars>>

\* Line 146 with self._children.clear() added for a node reported missing.
DataDecodeClears(s) ==
    /\ h[s].pc = "decode"
    /\ _data' = decode(h[s].data)
    /\ dataRun' = h[s].run
    /\ heap' = IF h[s].stat = NoStat THEN [heap EXCEPT ![_children] = EmptyDict] ELSE heap
    /\ h' = [h EXCEPT ![s].pc = "setstat"]
    /\ UNCHANGED <<zkvars, watchvars, callback, _path, _watch_children, _children, _stat,
                   _callbacks, _state, dataRuns, failedKinds, childRuns, statRun, appvars>>

\* Line 146 moved into the branch of line 139: a node reported missing keeps
\* the data cached for it.
DataDecodeStale(s) ==
    /\ h[s].pc = "decode"
    /\ _data' = IF h[s].stat # NoStat THEN decode(h[s].data) ELSE _data
    /\ dataRun' = h[s].run
    /\ h' = [h EXCEPT ![s].pc = "setstat"]
    /\ UNCHANGED <<zkvars, watchvars, callback, _path, _watch_children, _children, _stat,
                   _callbacks, _state, heap, dataRuns, failedKinds, childRuns, statRun, appvars>>

\* Line 146: self._data = funcs.decode(data).
DataDecode(s) ==
    /\ h[s].pc = "decode"
    /\ _data' = decode(h[s].data)
    /\ dataRun' = h[s].run
    /\ h' = [h EXCEPT ![s].pc = "setstat"]
    /\ UNCHANGED <<zkvars, watchvars, callback, _path, _watch_children, _children, _stat,
                   _callbacks, _state, heap, dataRuns, failedKinds, childRuns, statRun, appvars>>

\* Line 147 moved into the branch of line 139: a node reported missing keeps
\* the stat cached for it.
DataSetStatExisting(s) ==
    /\ h[s].pc = "setstat"
    /\ _stat' = IF h[s].stat # NoStat THEN h[s].stat ELSE _stat
    /\ statRun' = h[s].run
    /\ h' = [h EXCEPT ![s].pc = "exec"]
    /\ UNCHANGED <<zkvars, watchvars, callback, _path, _watch_children, _children, _data,
                   _callbacks, _state, heap, dataRuns, failedKinds, childRuns, dataRun, appvars>>

\* Line 147: self._stat = stat, the stat the DataWatch passed in.
DataSetStat(s) ==
    /\ h[s].pc = "setstat"
    /\ _stat' = h[s].stat
    /\ statRun' = h[s].run
    /\ h' = [h EXCEPT ![s].pc = "exec"]
    /\ UNCHANGED <<zkvars, watchvars, callback, _path, _watch_children, _children, _data,
                   _callbacks, _state, heap, dataRuns, failedKinds, childRuns, dataRun, appvars>>

\* ------------------------------------------------- _update_child_list
\* Line 160 as children = self._children: the cached dict is filled in place.
StartChildAlias(s) ==
    /\ childArmed /\ childPending
    /\ s = FirstIdle(ChildSlotSeq)
    /\ childPending' = FALSE
    /\ childRuns' = childRuns + 1
    /\ LET names == ChildList(DOMAIN zkChildren) IN
       h' = [h EXCEPT ![s] =
                [Idle EXCEPT !.pc = IF names = <<>> THEN "commit" ELSE "cfetch",
                             !.run = childRuns + 1,
                             !.init = (pcA = "begin_child" /\ \A t \in ChildSlots : ~h[t].init),
                             !.names = names,
                             !.children = _children,
                             !.quiet = ~_state]]
    /\ UNCHANGED <<zkvars, dataArmed, childArmed, dataPending, objvars, dataRuns, failedKinds, statRun,
                   dataRun, appvars>>

\* The ChildrenWatch calls _update_child_list(data) with the list of child
\* names; line 160 makes a new dict.
StartChild(s) ==
    /\ childArmed /\ childPending
    /\ s = FirstIdle(ChildSlotSeq)
    /\ childPending' = FALSE
    /\ childRuns' = childRuns + 1
    /\ heap' = DictPut(heap, childRuns + 1, EmptyDict)
    /\ LET names == ChildList(DOMAIN zkChildren) IN
       h' = [h EXCEPT ![s] =
                [Idle EXCEPT !.pc = IF names = <<>> THEN "commit" ELSE "cfetch",
                             !.run = childRuns + 1,
                             !.init = (pcA = "begin_child" /\ \A t \in ChildSlots : ~h[t].init),
                             !.names = names,
                             !.children = childRuns + 1,
                             !.quiet = ~_state]]
    /\ UNCHANGED <<zkvars, dataArmed, childArmed, dataPending, callback, _path, _watch_children,
                   _children, _data, _stat, _callbacks, _state, dataRuns, failedKinds, statRun,
                   dataRun, appvars>>

\* Lines 161-164, one turn of the loop: fetch the child's data and store its
\* decoded value in the new dict.  The get raises when the child is gone.
ChildFetch(s) ==
    /\ h[s].pc = "cfetch"
    /\ LET c == h[s].names[h[s].i] IN
       \/ /\ c \in DOMAIN zkChildren
          /\ heap' = [heap EXCEPT ![h[s].children] = DictPut(@, c, decode(zkChildren[c]))]
          /\ h' = [h EXCEPT ![s].fetched = DictPut(@, c, zkChildren[c]),
                            ![s].i = @ + 1,
                            ![s].pc = IF h[s].i + 1 > Len(h[s].names) THEN "commit" ELSE "cfetch"]
       \/ /\ h' = [h EXCEPT ![s].pc = "failed"]
          /\ UNCHANGED heap
    /\ UNCHANGED <<zkvars, watchvars, callback, _path, _watch_children, _children, _data, _stat,
                   _callbacks, _state, dataRuns, failedKinds, childRuns, statRun, dataRun, appvars>>

\* Line 165 as self._children.update(children): the new entries are merged
\* into the cached dict.
ChildCommitMerge(s) ==
    /\ h[s].pc = "commit"
    /\ h' = [h EXCEPT ![s].pc = "exec", ![s].i = 1]
    /\ heap' = [heap EXCEPT ![_children] =
                    [c \in (DOMAIN @) \cup (DOMAIN heap[h[s].children]) |->
                        IF c \in DOMAIN heap[h[s].children]
                           THEN heap[h[s].children][c] ELSE @[c]]]
    /\ UNCHANGED <<zkvars, watchvars, callback, _path, _watch_children, _children, _data,
                   _stat, _callbacks, _state, dataRuns, failedKinds, childRuns, statRun, dataRun, appvars>>

\* Line 165: self._children = children.
ChildCommit(s) ==
    /\ h[s].pc = "commit"
    /\ _children' = h[s].children
    /\ h' = [h EXCEPT ![s].pc = "exec", ![s].i = 1]
    /\ heap' = Collect(heap, h', _children', snap)
    /\ UNCHANGED <<zkvars, watchvars, callback, _path, _watch_children, _data, _stat,
                   _callbacks, _state, dataRuns, failedKinds, childRuns, statRun, dataRun, appvars>>

\* ------------------------------------------------- _execute_callbacks
\* Lines 176-178 left out: the callbacks run whatever self._state is.
ExecCheckAlways(s) ==
    /\ h[s].pc = "exec"
    /\ h' = [h EXCEPT ![s].pc = "loop", ![s].i = 1, ![s].registered = Len(_callbacks)]
    /\ UNCHANGED <<zkvars, watchvars, objvars, dataRuns, failedKinds, childRuns, statRun, dataRun, appvars>>

\* Lines 176-178: if not self.state(): return.
ExecCheck(s) ==
    /\ h[s].pc = "exec"
    /\ h' = [h EXCEPT ![s].pc = IF _state THEN "loop" ELSE "done", ![s].i = 1,
                      ![s].registered = IF _state THEN Len(_callbacks) ELSE 0]
    /\ UNCHANGED <<zkvars, watchvars, objvars, dataRuns, failedKinds, childRuns, statRun, dataRun, appvars>>

\* Lines 180-182, one turn of for callback in self._callbacks: the list
\* iterator compares its index with the list's present length, then
\* callback(self.get()) runs; the callback returns or raises.
Invoke(s) ==
    /\ h[s].pc = "loop"
    /\ \/ /\ h[s].i > Len(_callbacks)
          /\ h' = [h EXCEPT ![s].pc = "done"]
       \/ /\ h[s].i <= Len(_callbacks)
          /\ \E raises \in BOOLEAN :
                h' = [h EXCEPT ![s].invoked = Append(@, _callbacks[h[s].i]),
                               ![s].i = @ + 1,
                               ![s].pc = IF raises THEN "raised" ELSE "loop"]
    /\ UNCHANGED <<zkvars, watchvars, objvars, dataRuns, failedKinds, childRuns, statRun, dataRun, appvars>>

\* The handler returns, or its exception is logged by the client.
Finish(s) ==
    /\ h[s].pc \in {"done", "failed", "raised"}
    /\ ~h[s].init
    /\ h' = [h EXCEPT ![s] = Idle]
    /\ heap' = Collect(heap, h', _children, snap)
    /\ failedKinds' = IF h[s].pc = "failed"
                         THEN failedKinds \cup {IF s \in DataSlots THEN "data" ELSE "child"}
                         ELSE failedKinds
    /\ UNCHANGED <<zkvars, watchvars, callback, _path, _watch_children, _children, _data, _stat,
                   _callbacks, _state, dataRuns, childRuns, statRun, dataRun, appvars>>

\* ---------------------------------------------------------------- _begin
\* Line 130: the DataWatch is registered; it calls _update_root_data at once.
Begin ==
    /\ pcA = "begin"
    /\ dataArmed' = TRUE
    /\ dataPending' = TRUE
    /\ pcA' = "begin_data"
    /\ UNCHANGED <<zkvars, childArmed, childPending, objvars, runvars, ret, snap, acb,
                   immediate, lastcall, warnings, abase, sawExists>>

\* Line 155 as if self._watch_children: the node's existence is not asked for.
BeginChildrenAlways(s) ==
    /\ pcA = "begin_data"
    /\ s \in DataSlots /\ h[s].init
    /\ h[s].pc \in {"done", "failed", "raised"}
    /\ h' = [h EXCEPT ![s] = Idle]
    /\ \/ /\ h[s].pc = "done"
          /\ sawExists' = (zkStat # NoStat)
          /\ IF _watch_children
                THEN childArmed' = TRUE /\ childPending' = TRUE /\ pcA' = "begin_child"
                ELSE UNCHANGED <<childArmed, childPending>> /\ pcA' = "idle"
       \/ /\ pcA' = "aborted"
          /\ UNCHANGED <<childArmed, childPending, sawExists>>
    /\ UNCHANGED <<zkvars, dataArmed, dataPending, objvars, dataRuns, failedKinds, childRuns, statRun,
                   dataRun, ret, snap, acb, immediate, lastcall, warnings, abase>>

\* The first call of _update_root_data returns into _begin.  Line 155:
\* if self._zk.exists(self._path) and self._watch_children, line 157 registers
\* the ChildrenWatch, which calls _update_child_list at once.  An exception of
\* the handler or of exists() leaves the constructor.
BeginChildren(s) ==
    /\ pcA = "begin_data"
    /\ s \in DataSlots /\ h[s].init
    /\ h[s].pc \in {"done", "failed", "raised"}
    /\ h' = [h EXCEPT ![s] = Idle]
    /\ \/ /\ h[s].pc = "done"
          /\ sawExists' = (zkStat # NoStat)
          /\ IF zkStat # NoStat /\ _watch_children
                THEN childArmed' = TRUE /\ childPending' = TRUE /\ pcA' = "begin_child"
                ELSE UNCHANGED <<childArmed, childPending>> /\ pcA' = "idle"
       \/ /\ pcA' = "aborted"
          /\ UNCHANGED <<childArmed, childPending, sawExists>>
    /\ UNCHANGED <<zkvars, dataArmed, dataPending, objvars, dataRuns, failedKinds, childRuns, statRun, dataRun, ret,
                   snap, acb, immediate, lastcall, warnings, abase>>

\* The first call of _update_child_list returns into _begin and the
\* constructor returns, or the handler's exception leaves the constructor.
BeginDone(s) ==
    /\ pcA = "begin_child"
    /\ s \in ChildSlots /\ h[s].init
    /\ h[s].pc \in {"done", "failed", "raised"}
    /\ h' = [h EXCEPT ![s] = Idle]
    /\ heap' = Collect(heap, h', _children, snap)
    /\ pcA' = IF h[s].pc = "done" THEN "idle" ELSE "aborted"
    /\ UNCHANGED <<zkvars, watchvars, callback, _path, _watch_children, _children, _data, _stat,
                   _callbacks, _state, dataRuns, failedKinds, childRuns, statRun, dataRun, ret, snap,
                   acb, immediate, lastcall, warnings, abase, sawExists>>

\* ------------------------------------------------------------------ get
\* Lines 95-97: ret = {}; ret['stat'] = self._stat; ret['path'] = self._path.
ReadStat == ret' = [NoRet EXCEPT !.stat = _stat, !.statRun = statRun, !.path = _path]

\* The application calls get().
Get ==
    /\ pcA = "idle" /\ events < MaxEvents
    /\ events' = events + 1
    /\ ReadStat
    /\ pcA' = "get_data"
    /\ acb' = None
    /\ UNCHANGED <<nodevars, watchvars, objvars, runvars, snap, immediate, lastcall,
                   warnings, abase, sawExists>>

\* Line 125 calls self.get(): its first reads.
GetStat ==
    /\ pcA = "get_stat"
    /\ ReadStat
    /\ pcA' = "get_data"
    /\ UNCHANGED <<zkvars, watchvars, objvars, runvars, snap, acb, immediate,
                   lastcall, warnings, abase, sawExists>>

\* Line 98: ret['data'] = self._data.
GetData ==
    /\ pcA = "get_data"
    /\ ret' = [ret EXCEPT !.data = _data, !.dataRun = dataRun]
    /\ pcA' = "get_children"
    /\ UNCHANGED <<zkvars, watchvars, objvars, runvars, snap, acb, immediate,
                   lastcall, warnings, abase, sawExists>>

\* Line 125 with the call made only while self._state is true.
CallNewGated(r) ==
    IF _state
       THEN /\ immediate' = [immediate EXCEPT ![acb] = @ + 1]
            /\ lastcall' = [cb |-> acb, active |-> _state,
                            clean |-> (AllIdle /\ abase = dataRuns + childRuns),
                            current |-> /\ r.stat = _stat /\ r.data = _data
                                        /\ r.children = _children /\ r.path = _path]
       ELSE UNCHANGED <<immediate, lastcall>>

\* Line 125: callback(r), r being what self.get() returned.  lastcall records
\* the flag at the time of the call, whether no handler ran during
\* add_callback (clean) and whether r equals the cache (current).
CallNew(r) ==
    /\ immediate' = [immediate EXCEPT ![acb] = @ + 1]
    /\ lastcall' = [cb |-> acb, active |-> _state,
                    clean |-> (AllIdle /\ abase = dataRuns + childRuns),
                    current |-> /\ r.stat = _stat /\ r.data = _data
                                /\ r.children = _children /\ r.path = _path]

\* Lines 99-100: ret['children'] = self._children; return ret.  The dict holds
\* a reference to the children dict; kids records what that dict held when
\* get() returned.  In add_callback the returned dict goes to the new
\* callback (line 125), elsewhere to the application.
GetReturn ==
    /\ pcA = "get_children"
    /\ LET r == [ret EXCEPT !.children = _children, !.kids = heap[_children]] IN
       IF acb = None
          THEN /\ snap' = r
               /\ UNCHANGED <<immediate, lastcall>>
          ELSE /\ CallNew(r)
               /\ UNCHANGED snap
    /\ heap' = Collect(heap, h, _children, snap')
    /\ ret' = NoRet
    /\ acb' = None
    /\ abase' = -1
    /\ pcA' = "idle"
    /\ UNCHANGED <<zkvars, watchvars, callback, _path, _watch_children, _children, _data,
                   _stat, _callbacks, _state, runvars, warnings, sawExists>>

\* ----------------------------------------------------------- stop, start
\* Line 105: self._state = False.
Stop ==
    /\ pcA = "idle" /\ events < MaxEvents
    /\ events' = events + 1
    /\ _state' = FALSE
    /\ UNCHANGED <<nodevars, watchvars, callback, _path, _watch_children, _children, _data, _stat,
                   _callbacks, heap, runvars, appvars>>

\* Line 110: self._state = True.
Start ==
    /\ pcA = "idle" /\ events < MaxEvents
    /\ events' = events + 1
    /\ _state' = TRUE
    /\ h' = [s \in Slots |-> [h[s] EXCEPT !.quiet = FALSE]]
    /\ UNCHANGED <<nodevars, watchvars, callback, _path, _watch_children, _children, _data, _stat,
                   _callbacks, heap, dataRuns, failedKinds, childRuns, statRun, dataRun, appvars>>

\* ---------------------------------------------------------- add_callback
\* Lines 118-122 left out: the callback is appended and called every time.
AddCallbackNoCheck(cb) ==
    /\ pcA = "idle" /\ events < MaxEvents
    /\ events' = events + 1
    /\ _callbacks' = Append(_callbacks, cb)
    /\ pcA' = "get_stat"
    /\ acb' = cb
    /\ abase' = IF AllIdle THEN dataRuns + childRuns ELSE -1
    /\ UNCHANGED <<nodevars, watchvars, callback, _path, _watch_children, _children, _data,
                   _stat, _state, heap, runvars, ret, snap, immediate, lastcall, warnings,
                   sawExists>>

\* Lines 118-124: return if callback is in self._callbacks, else append it;
\* line 125 follows with callback(self.get()).
AddCallback(cb) ==
    /\ pcA = "idle" /\ events < MaxEvents
    /\ events' = events + 1
    /\ IF cb \in Range(_callbacks)
          THEN /\ warnings' = warnings + 1
               /\ UNCHANGED <<_callbacks, pcA, acb, abase>>
          ELSE /\ _callbacks' = Append(_callbacks, cb)
               /\ pcA' = "get_stat"
               /\ acb' = cb
               /\ abase' = IF AllIdle THEN dataRuns + childRuns ELSE -1
               /\ UNCHANGED warnings
    /\ UNCHANGED <<nodevars, watchvars, callback, _path, _watch_children, _children, _data, _stat,
                   _state, heap, runvars, ret, snap, immediate, lastcall, sawExists>>

\* ------------------------------------------------------------ the client
\* kazoo runs one call of a watch function at a time: a notification is
\* delivered when no handler of the same subscription runs.
Serial(S) == \A s \in S : h[s].pc = "idle"

DeliverData(s) == Serial(DataSlots) /\ StartData(s)

DeliverChildren(s) == Serial(ChildSlots) /\ StartChild(s)

\* ------------------------------------------------------------------ Next
\* Every step but the delivery of a notification.
Steps ==
    \/ \E r \in RawValues : ZkCreate(r)
    \/ \E r \in RawValues : ZkSet(r)
    \/ ZkDelete
    \/ \E c \in ChildNames, r \in RawValues : ZkChildPut(c, r)
    \/ \E c \in ChildNames : ZkChildDelete(c)
    \/ Begin
    \/ \E s \in DataSlots : BeginChildren(s)
    \/ \E s \in ChildSlots : BeginDone(s)
    \/ \E s \in DataSlots : DataFetch(s)
    \/ \E s \in DataSlots : DataDecode(s)
    \/ \E s \in DataSlots : DataSetStat(s)
    \/ \E s \in ChildSlots : ChildFetch(s)
    \/ \E s \in ChildSlots : ChildCommit(s)
    \/ \E s \in Slots : ExecCheck(s)
    \/ \E s \in Slots : Invoke(s)
    \/ \E s \in Slots : Finish(s)
    \/ Get
    \/ GetStat
    \/ GetData
    \/ GetReturn
    \/ Stop
    \/ Start
    \/ \E cb \in Callbacks : AddCallback(cb)

Next ==
    \/ \E s \in DataSlots : DeliverData(s)
    \/ \E s \in ChildSlots : DeliverChildren(s)
    \/ Steps

\* The Watcher with a client that runs one call of each watch function at a
\* time.
Spec == Init /\ [][Next]_vars

\* The Watcher with a client that may call a watch function again while an
\* earlier call of it is still running.
NextOverlap ==
    \/ \E s \in DataSlots : StartData(s)
    \/ \E s \in ChildSlots : StartChild(s)
    \/ Steps

SpecOverlap == Init /\ [][NextOverlap]_vars

\* The steps of the threads that run the Watcher's code: kazoo's delivery of
\* a pending notification, the handlers, and the constructor.
Threads ==
    \/ \E s \in DataSlots : DeliverData(s)
    \/ \E s \in ChildSlots : DeliverChildren(s)
    \/ Begin
    \/ \E s \in DataSlots : BeginChildren(s)
    \/ \E s \in ChildSlots : BeginDone(s)
    \/ \E s \in DataSlots : DataFetch(s)
    \/ \E s \in DataSlots : DataDecode(s)
    \/ \E s \in DataSlots : DataSetStat(s)
    \/ \E s \in ChildSlots : ChildFetch(s)
    \/ \E s \in ChildSlots : ChildCommit(s)
    \/ \E s \in Slots : ExecCheck(s)
    \/ \E s \in Slots : Invoke(s)
    \/ \E s \in Slots : Finish(s)

\* Every handler run completes: the get of line 141 or 163 raises only
\* NoNodeError, for a node that is gone (the connection does not fail), and
\* no callback raises.
RunsComplete ==
    /\ \A s \in DataSlots :
          (h[s].pc = "fetch" /\ h'[s].pc = "failed") => zkStat = NoStat
    /\ \A s \in ChildSlots :
          (h[s].pc = "cfetch" /\ h'[s].pc = "failed") =>
              h[s].names[h[s].i] \notin DOMAIN zkChildren
    /\ \A s \in Slots : h'[s].pc # "raised"

\* The changes of the node and of its children.
Zookeeper ==
    \/ \E r \in RawValues : ZkCreate(r)
    \/ \E r \in RawValues : ZkSet(r)
    \/ ZkDelete
    \/ \E c \in ChildNames, r \in RawValues : ZkChildPut(c, r)
    \/ \E c \in ChildNames : ZkChildDelete(c)

\* The calls of the application thread.
Application ==
    \/ Get
    \/ GetStat
    \/ GetData
    \/ GetReturn
    \/ Stop
    \/ Start
    \/ \E cb \in Callbacks : AddCallback(cb)

NextLive ==
    \/ Zookeeper
    \/ Application
    \/ \E s \in DataSlots : DeliverData(s)
    \/ \E s \in ChildSlots : DeliverChildren(s)
    \/ Begin
    \/ \E s \in DataSlots : BeginChildren(s)
    \/ \E s \in ChildSlots : BeginDone(s)
    \/ \E s \in DataSlots : DataFetch(s) /\ RunsComplete
    \/ \E s \in DataSlots : DataDecode(s)
    \/ \E s \in DataSlots : DataSetStat(s)
    \/ \E s \in ChildSlots : ChildFetch(s) /\ RunsComplete
    \/ \E s \in ChildSlots : ChildCommit(s)
    \/ \E s \in Slots : ExecCheck(s)
    \/ \E s \in Slots : Invoke(s) /\ RunsComplete
    \/ \E s \in Slots : Finish(s)

\* The Watcher with runs that complete and threads that keep running: a
\* thread that can take a step takes one.
SpecLive == Init /\ [][NextLive]_vars /\ WF_vars(Threads /\ RunsComplete)

\* =====================================================================
\* Properties
\* =====================================================================
\* What get() returns for the children: the dict self._children refers to.
Kids == heap[_children]

\* A handler run is over: it returned, or a callback's exception ended it
\* after the cache was written.
Settled(s) == h[s].pc \in {"done", "raised"}

\* The cache holds the result of the data handler run in slot s.
DataResult(s) ==
    /\ _data = decode(h[s].data)
    /\ h[s].stat = NoStat => _data = None
    /\ (_stat = NoStat) <=> (h[s].stat = NoStat)

\* The cache holds the result of the child handler run in slot s.
ChildResult(s) ==
    /\ DOMAIN Kids = Range(h[s].names)
    /\ DOMAIN h[s].fetched = Range(h[s].names)
    /\ \A c \in DOMAIN Kids : Kids[c] = decode(h[s].fetched[c])

\* C1: when a run of the data-change handler is over, get().data is the
\* decoded payload that run fetched (None when the notification reported the
\* node missing) and get().stat is None exactly when the notification
\* reported the node missing.
C1_DataRunResult == \A s \in DataSlots : Settled(s) => DataResult(s)

\* A later notification has been handled and the cache holds decoded data.
C1_Witness ==
    \E s \in DataSlots :
        /\ h[s].pc = "done" /\ h[s].run >= 2
        /\ h[s].stat # NoStat /\ _data = "B"

\* C2: when a run of the child-change handler is over, the keys of
\* get().children are exactly the names the notification carried and every
\* key maps to the decoded data this run fetched for it.
C2_ChildRunResult == \A s \in ChildSlots : Settled(s) => ChildResult(s)

\* A later child notification has been handled and the cache lists children.
C2_Witness ==
    \E s \in ChildSlots :
        /\ h[s].pc = "done" /\ h[s].run >= 2
        /\ Len(h[s].names) = 2 /\ DOMAIN Kids = ChildNames

\* C3: a handler run made while the flag is inactive from its start to its
\* end (quiet) updates the cache and calls no callback; and the step of
\* start() that sets the flag calls no callback.
C3_PausedSilent ==
    /\ [](\A s \in Slots :
            (h[s].pc = "done" /\ h[s].quiet) =>
                /\ h[s].invoked = <<>>
                /\ s \in DataSlots => DataResult(s)
                /\ s \in ChildSlots => ChildResult(s))
    /\ [][(~_state /\ _state') =>
            /\ immediate' = immediate
            /\ \A s \in Slots : h'[s].invoked = h[s].invoked]_vars

\* A notification was handled while paused, with a callback registered: the
\* cache took the new data and nothing was called.
C3_Witness ==
    \E s \in DataSlots :
        /\ h[s].pc = "done" /\ h[s].quiet /\ ~_state
        /\ h[s].run >= 2 /\ h[s].invoked = <<>>
        /\ _callbacks # <<>> /\ _data = "B"

\* No callback is twice in the registry.
NoDuplicates == \A j, k \in 1..Len(_callbacks) : _callbacks[j] = _callbacks[k] => j = k

\* C4: the registry never holds a callback twice and add_callback never calls
\* a callback a second time; the call that finds its callback registered
\* (it logs the warning of line 120) changes neither the registry nor the
\* count of calls made, and returns without calling get().
C4_Idempotent ==
    /\ [](NoDuplicates /\ \A cb \in Callbacks : immediate[cb] <= 1)
    /\ [][warnings' # warnings =>
            /\ _callbacks' = _callbacks
            /\ immediate' = immediate
            /\ pcA' = "idle"]_vars

\* The same callback was given to add_callback twice: one entry, one call.
C4_Witness ==
    /\ warnings = 1 /\ pcA = "idle" /\ callback = None
    /\ _callbacks = <<"g">> /\ immediate["g"] = 1

\* C5: add_callback appends a callback that is not registered, and when it
\* has returned that callback has been called exactly once by it, whatever
\* the flag was; the constructor's callback is never called by add_callback.
\* When no handler ran during add_callback, the dict passed is the cache.
C5_ImmediateCall ==
    /\ [](/\ \A cb \in Callbacks :
                immediate[cb] =
                    IF cb \in Range(_callbacks) /\ cb # callback /\ cb # acb THEN 1 ELSE 0
          /\ (lastcall # NoCall /\ lastcall.clean) => lastcall.current)
    /\ [][acb' # acb /\ acb' # None => _callbacks' = Append(_callbacks, acb')]_vars

\* add_callback made its call while the Watcher was paused.
C5_Witness ==
    /\ lastcall # NoCall /\ ~lastcall.active /\ lastcall.clean
    /\ immediate[lastcall.cb] = 1 /\ pcA = "idle" /\ ~_state

\* C6: a step of the data-change handler leaves the children as they are, a
\* step of the child-change handler leaves data and stat as they are, and no
\* step changes the path.
C6_DisjointFields ==
    [][/\ _path' = _path
       /\ (\E s \in DataSlots : h'[s].pc # h[s].pc) =>
            (_children' = _children /\ heap'[_children'] = heap[_children])
       /\ (\E s \in ChildSlots : h'[s].pc # h[s].pc) =>
            (_data' = _data /\ _stat' = _stat)]_vars

\* The data handler has recorded that the node is gone while the cache still
\* lists a child.
C6_Witness ==
    \E s \in DataSlots :
        /\ h[s].pc = "done" /\ h[s].stat = NoStat
        /\ _data = None /\ _stat = NoStat /\ Kids # EmptyDict

\* C7: in every state, between any two steps of the handlers, a cached stat
\* of None comes with cached data of None.
C7_NoStatNoData == _stat = NoStat => _data = None

\* Inside a run for a node reported missing, after data that was cached has
\* been cleared and the stat has been set to None.
C7_Witness ==
    \E s \in DataSlots :
        /\ h[s].pc = "exec" /\ h[s].run >= 2 /\ h[s].stat = NoStat
        /\ _stat = NoStat /\ _data = None

\* C8: the stat and the data of a dict returned by get() were written by the
\* same run of the data-change handler (or both by the constructor).
C8_NoTornRead == snap # NoRet => snap.statRun = snap.dataRun

\* C9: the children dict of a dict get() returned holds what it held when
\* get() returned, whatever the handlers have done since.
C9_SnapshotKept ==
    snap # NoRet => (snap.children \in DOMAIN heap /\ heap[snap.children] = snap.kids)

\* The cache has replaced its children since get() returned; the returned
\* dict still has the old ones.
C9_Witness ==
    /\ snap # NoRet /\ snap.children # _children
    /\ snap.kids # EmptyDict /\ Kids # snap.kids

\* C10: the ChildrenWatch is registered exactly when exists() returned true
\* in _begin and watch_children is true; while it is not registered
\* get().children is empty.
C10_ChildWatchArmed ==
    /\ childArmed <=> (sawExists /\ _watch_children)
    /\ ~childArmed => Kids = EmptyDict

\* The node did not exist at construction, was created and got a child; the
\* cache knows the node but lists no child.
C10_Witness ==
    /\ pcA = "idle" /\ _watch_children /\ ~childArmed
    /\ zkChildren # EmptyDict /\ _stat # NoStat /\ _data # None
    /\ AllIdle /\ ~dataPending /\ Kids = EmptyDict

\* C11: a callback that raises during a dispatch does not keep the callbacks
\* registered after it from being called: a run ends on a callback's
\* exception only when no registered callback is left to call, and the cache
\* then holds what the run committed.
C11_RaiseIsolated ==
    [][\A s \in Slots :
          (h[s].pc = "loop" /\ h'[s].pc = "raised") =>
              /\ h'[s].i > Len(_callbacks)
              /\ s \in DataSlots => DataResult(s)'
              /\ s \in ChildSlots => ChildResult(s)']_vars

\* C12: a handler run in which a get fails leaves the cache as it was before
\* the notification: the run has written neither the data nor the stat, the
\* dict it was filling is not the cached one, and the failing step changes
\* nothing; the runs that come after a failed one still end with their result.
C12_FailureKeepsCache ==
    /\ [](\A s \in Slots :
            /\ (s \in DataSlots /\ h[s].pc = "failed") =>
                   statRun # h[s].run /\ dataRun # h[s].run
            /\ (s \in ChildSlots /\ h[s].pc = "failed") => _children # h[s].children
            /\ (s \in DataSlots /\ "data" \in failedKinds /\ Settled(s)) => DataResult(s)
            /\ (s \in ChildSlots /\ "child" \in failedKinds /\ Settled(s)) => ChildResult(s))
    /\ [][\A s \in Slots :
            (h[s].pc # "failed" /\ h'[s].pc = "failed") =>
                /\ UNCHANGED <<_data, _stat, _children>>
                /\ heap'[_children] = heap[_children]]_vars

\* A data run has failed on its get after the constructor, and a later data
\* run has ended with data in the cache.
C12_Witness ==
    /\ \E s \in DataSlots :
          /\ "data" \in failedKinds
          /\ h[s].pc = "done"
          /\ _data # None

\* C13: for a node reported existing, the stat cached when the data handler
\* finishes is the stat its own get returned: the stat stored with the data
\* by line 141 is still the cached one once line 147 has run.
C13_FetchedStatKept ==
    [][\A s \in DataSlots :
          (h[s].pc = "setstat" /\ h'[s].pc = "exec" /\ h[s].stat # NoStat
             /\ statRun = h[s].run) =>
              _stat' = _stat]_vars

\* C14: when the get of the data handler finds the node gone although the
\* notification reported it existing, the run ends with the cache marking
\* the node missing: no data and no stat.
C14_VanishedMeansMissing ==
    [][\A s \in DataSlots :
          (h[s].pc = "fetch" /\ h'[s].pc = "failed" /\ zkStat = NoStat) =>
              _data' = None /\ _stat' = NoStat]_vars

\* C15: a handler run that found the flag active calls every callback of
\* the registry once, in registration order: each call is the next entry of
\* the registry and is made with the run's update in the cache, and the
\* dispatch ends only when the calls made are the whole registry.
C15_DispatchComplete ==
    [][\A s \in Slots :
          /\ (h[s].pc = "loop" /\ h'[s].invoked # h[s].invoked) =>
                /\ h'[s].invoked = SubSeq(_callbacks, 1, h[s].i)
                /\ s \in DataSlots =>
                      dataRun = h[s].run /\ statRun = h[s].run /\ DataResult(s)
                /\ s \in ChildSlots => _children = h[s].children
          /\ (h[s].pc = "loop" /\ h'[s].pc \in {"done", "raised"}) =>
                h'[s].invoked = _callbacks]_vars

\* C16: two runs of the same handler do not interleave, so that once both
\* are over the cache holds what the later-delivered one wrote.
C16_LaterRunWins ==
    /\ \A s, t \in DataSlots :
          (Settled(s) /\ Settled(t) /\ h[s].run > h[t].run) =>
              dataRun = h[s].run /\ statRun = h[s].run
    /\ \A s, t \in ChildSlots :
          (Settled(s) /\ Settled(t) /\ h[s].run > h[t].run) =>
              _children = h[s].children

\* C17: add_callback running while a dispatch walks the registry causes no
\* skipped and no doubled call: the dispatch calls the callbacks that were
\* registered when it began, each once and in order, and does not call the
\* callback being added, which add_callback itself calls once.
C17_DispatchIgnoresAdded ==
    \A s \in Slots :
        h[s].pc \in {"loop", "done"} =>
            /\ h[s].invoked = SubSeq(_callbacks, 1, Len(h[s].invoked))
            /\ Len(h[s].invoked) <= h[s].registered
            /\ h[s].pc = "done" => Len(h[s].invoked) = h[s].registered

\* C18: once stop() has returned, no handler calls a callback until start()
\* is called, the remaining callbacks of a dispatch under way included: a
\* handler's call of a callback is made only with the flag set.
C18_NoCallWhileStopped ==
    [][\A s \in Slots : h'[s].invoked # h[s].invoked => _state]_vars

\* What get() returns for data and stat is the node as it is now.
Fresh == _data = decode(zkData) /\ _stat = zkStat

====
